---- MODULE Spec2Model ----
(***************************************************************************)
(* Contract PDF builder (contractPdfBuilder.ts): ContractPdfBuilder.build  *)
(* drives a PDFKit document through header, preamble, sections and the     *)
(* signature block and settles a promise from the document's data / end /  *)
(* error events.                                                           *)
(*                                                                         *)
(* Lengths are in hundredths of a PDF point, so that the A4 page           *)
(* (595.28 x 841.89 pt) and 0.75 * content width are integers.             *)
(* The PDFKit document is outside the repository: its calls are modelled   *)
(* by their effect on the cursor (doc.y), the text style and the event     *)
(* listeners, with the rendered height of a text chosen by the backend.    *)
(***************************************************************************)
EXTENDS Integers, Sequences, FiniteSets, TLC

VARIABLES
  data,        \* this.data: the ContractData given to the constructor
  options,     \* this.options: includeSignatureMarkers, margin, pageSize
  doc,         \* this.doc: cursor y, text style, listeners, end() called
  pc,          \* position of the executor of build()
  chunks,      \* const chunks: Buffer[] of build()
  outcome,     \* state of the promise build() returns
  starts,      \* clientStartY / providerStartY of renderSignatureBlock
  emitted,     \* backend: number of data events emitted
  failures,    \* backend: error events emitted, with the promise state seen
  endEvent,    \* backend: "end" emitted, and the chunks emitted before it
  phaseLog,    \* history: render methods entered / returned, in order
  drawLog,     \* history: the render methods that issued draw calls, in order
  checks,      \* history: the page-break check just made, until the next text
  sig,         \* history: the signature block's check, row draws, page breaks
  opLog,       \* history: the calls issued on the document, when recorded
  backend,     \* the PDFKit document's text metrics: sampled, or one of two fixed
  self,        \* which generateContractPdf call the variables above belong to
  other,       \* the builder of the other generateContractPdf call, if any
  body,        \* the postback body given to parsePostback
  parsed,      \* what parsePostback did with it
  demo         \* main() of the demo script: configuration, position, steps done

vars == <<data, options, doc, pc, chunks, outcome, starts, emitted, failures,
          endEvent, phaseLog, drawLog, checks, sig, opLog, backend, self, other,
          body, parsed, demo>>

\* what no statement and no listener of build() writes
context == <<backend, self, other, body, parsed, demo>>

----------------------------------------------------------------------------
(* Bounds *)

\* data events the backend emits in one build
MaxChunks == 2
\* error events the backend emits in one build
MaxFailures == 2

----------------------------------------------------------------------------
(* Units and page geometry *)

Pt(n) == n * 100

\* PdfOptions.pageSize, with the page box PDFKit gives each size
PageSizes == {"A4", "LETTER"}

PageWidth(size) == IF size = "A4" THEN 59528 ELSE 61200

PageHeight(size) == IF size = "A4" THEN 84189 ELSE 79200

\* options.margin ?? 72
DefaultMargin == 72

\* this.doc.page of the builder's document
Page == [width   |-> PageWidth(options.pageSize),
         height  |-> PageHeight(options.pageSize),
         margins |-> [left  |-> Pt(options.margin), right  |-> Pt(options.margin),
                      top   |-> Pt(options.margin), bottom |-> Pt(options.margin)]]

\* lowest cursor position at which the backend still starts a line
MaxY == Page.height - Page.margins.bottom

----------------------------------------------------------------------------
(* ContractData *)

\* a name of 256 characters
LongName ==
  LET x16 == "XXXXXXXXXXXXXXXX"
      x64 == x16 \o x16 \o x16 \o x16
  IN  x64 \o x64 \o x64 \o x64

Names == {"", "X", LongName}

ContractDataSet ==
  [clientName : Names, clientAddress : {"X"}, clientCity : {"X"},
   clientEmail : {"X"}, providerName : {"X"}, providerAddress : {"X"},
   providerCity : {"X"}, contractNumber : {"X"}, effectiveDate : {"X"},
   projectDescription : {"X"}, paymentAmount : {1000}, paymentTerms : {"X"}]

\* every string field "X", paymentAmount 1
MinimalData == CHOOSE d \in ContractDataSet : d.clientName = "X"

\* paymentAmount, in thousandths: negative, zero, with a third decimal, with
\* one and two groups of thousands
Amounts == {-1500, 0, 125, 1000, 999990, 25000000, 1234567890}

\* contracts with a client name that is empty, short or one of the anchor
\* tokens, the other strings all short or all empty, and every amount
TypedData ==
  [clientName : {"", "X", "{{ClientSignature}}"},
   clientAddress : {"X"}, clientCity : {"X"}, clientEmail : {"X"},
   providerName : {"X"}, providerAddress : {"X"}, providerCity : {"X"},
   contractNumber : {"X"}, effectiveDate : {"X"}, projectDescription : {"X", ""},
   paymentAmount : Amounts, paymentTerms : {"X"}]

\* the same contracts given without paymentAmount (the type not enforced at
\* run time)
UntypedData ==
  [clientName : {"", "X", "{{ClientSignature}}"},
   clientAddress : {"X"}, clientCity : {"X"}, clientEmail : {"X"},
   providerName : {"X"}, providerAddress : {"X"}, providerCity : {"X"},
   contractNumber : {"X"}, effectiveDate : {"X"}, projectDescription : {"X", ""},
   paymentTerms : {"X"}]

DataSamples == TypedData \cup UntypedData

\* this.data.paymentAmount is not undefined
HasAmount == "paymentAmount" \in DOMAIN data

PdfOptionsSet ==
  [includeSignatureMarkers : BOOLEAN, margin : {DefaultMargin, 36},
   pageSize : PageSizes]

\* the options the constructor fills in when none are given
DefaultOptions ==
  [includeSignatureMarkers |-> TRUE, margin |-> DefaultMargin, pageSize |-> "A4"]

----------------------------------------------------------------------------
(* Number.prototype.toLocaleString("nl-NL", { minimumFractionDigits: 2 }) *)
(* on an amount given in thousandths: "." groups the integer digits by    *)
(* three, "," starts the fraction, which has two digits, or three when    *)
(* the third is not zero (maximumFractionDigits defaults to 3).           *)

Digit(d) == <<"0", "1", "2", "3", "4", "5", "6", "7", "8", "9">>[d + 1]

RECURSIVE IntStr(_)
IntStr(n) == IF n < 10 THEN Digit(n) ELSE IntStr(n \div 10) \o Digit(n % 10)

Pad3(k) == Digit(k \div 100) \o Digit((k \div 10) % 10) \o Digit(k % 10)

RECURSIVE Grouped(_)
Grouped(n) ==
  IF n < 1000 THEN IntStr(n) ELSE Grouped(n \div 1000) \o "." \o Pad3(n % 1000)

Fraction(m) ==
  IF m % 10 = 0 THEN Digit(m \div 100) \o Digit((m \div 10) % 10) ELSE Pad3(m)

toLocaleString(milli) ==
  LET a == IF milli < 0 THEN 0 - milli ELSE milli
  IN  (IF milli < 0 THEN "-" ELSE "") \o Grouped(a \div 1000) \o ","
        \o Fraction(a % 1000)

----------------------------------------------------------------------------
(* Calls on the PDFKit document, and the statements of the render methods *)
(* that read or write doc.y                                               *)

FontSize(n) == [op |-> "fontSize", n |-> n]

Font(f) == [op |-> "font", s |-> f]

FillColor(c) == [op |-> "fillColor", s |-> c]

\* text(s, o): drawn at the cursor
Text(s, o) == [op |-> "text", s |-> s, o |-> o]

\* text(s, x, y, o): drawn at (x, y)
TextAt(s, x, y, o) == [op |-> "textAt", s |-> s, x |-> x, y |-> y, o |-> o]

\* moveDown(lines), the argument in tenths of a line
MoveDown(tenths) == [op |-> "moveDown", n |-> tenths]

MoveTo(x, y) == [op |-> "moveTo", x |-> x, y |-> y]

LineTo(x, y) == [op |-> "lineTo", x |-> x, y |-> y]

Stroke == [op |-> "stroke"]

\* if (this.doc.y > this.doc.page.height - this.options.margin - reserve) addPage()
CheckPage(reserve) == [op |-> "checkPage", n |-> reserve]

\* const <name> = this.doc.y
ReadY(name) == [op |-> "readY", s |-> name]

\* a final cursor position computed from the Client row's start
WriteYFromClient(name, offset) == [op |-> "writeY", s |-> "clientStartY", n |-> offset]

\* this.doc.y = <name> + offset
WriteY(name, offset) == [op |-> "writeY", s |-> name, n |-> offset]

\* a call of another render method of the builder
Call(fn, arg) == [op |-> "call", s |-> fn, n |-> arg]

\* the space, in points, a section header needs under the cursor
SectionReserve == 100

\* the signature block checked with the reserve of a section
SignatureReserveOfSection == SectionReserve

\* the space, in points, the signature block needs under the cursor
SignatureReserve == 400

NoOpts == [none |-> TRUE]

Center == [align |-> "center"]

Justify == [align |-> "justify"]

ItemOpts == [indent |-> 25, align |-> "justify", lineGap |-> 2]

DrawOps == {"fontSize", "font", "fillColor", "text", "textAt", "moveDown",
            "moveTo", "lineTo", "stroke"}

----------------------------------------------------------------------------
(* renderHeader, renderPreamble *)

\* a header that prints which build of the process this is
renderHeaderOpsStamped ==
  << FontSize(20), Font("Helvetica-Bold"), Text("SERVICE AGREEMENT", Center),
     MoveDown(5),
     FontSize(10), Font("Helvetica"), FillColor("#666666"),
     Text("Contract No: " \o data.contractNumber \o "/" \o IntStr(self), Center),
     FillColor("#000000"), MoveDown(20) >>

renderHeaderOps ==
  << FontSize(20), Font("Helvetica-Bold"), Text("SERVICE AGREEMENT", Center),
     MoveDown(5),
     FontSize(10), Font("Helvetica"), FillColor("#666666"),
     Text("Contract No: " \o data.contractNumber, Center),
     FillColor("#000000"), MoveDown(20) >>

renderPreambleOps ==
  << FontSize(11), Font("Helvetica"),
     Text("This Service Agreement (\"Agreement\") is entered into as of "
            \o data.effectiveDate \o " by and between:", NoOpts),
     MoveDown(10),
     Font("Helvetica-Bold"), Text(data.clientName, NoOpts),
     Font("Helvetica"), Text(data.clientAddress, NoOpts),
     Text(data.clientCity, NoOpts),
     Text("Email: " \o data.clientEmail, NoOpts),
     Font("Helvetica-Oblique"),
     Text("(hereinafter referred to as the \"Client\")", NoOpts),
     MoveDown(10),
     Font("Helvetica"), Text("and", Center),
     MoveDown(10),
     Font("Helvetica-Bold"), Text(data.providerName, NoOpts),
     Font("Helvetica"), Text(data.providerAddress, NoOpts),
     Text(data.providerCity, NoOpts),
     Font("Helvetica-Oblique"),
     Text("(hereinafter referred to as the \"Provider\")", NoOpts),
     MoveDown(20),
     Font("Helvetica"),
     Text("NOW, THEREFORE, in consideration of the mutual covenants and agreements set forth herein, "
            \o "and for other good and valuable consideration, the receipt and sufficiency of which are hereby "
            \o "acknowledged, the parties agree as follows:", NoOpts),
     MoveDown(20) >>

----------------------------------------------------------------------------
(* buildSections *)

buildSections ==
  << [title |-> "SCOPE OF SERVICES",
      items |-> <<
        "The Provider agrees to perform the following services: " \o data.projectDescription,
        "All services shall be performed in a professional and workmanlike manner consistent with industry standards.",
        "The Provider shall dedicate sufficient resources and qualified personnel to complete the services in a timely manner.",
        "Any changes to the scope of services must be agreed upon in writing by both parties." >>],
     [title |-> "COMPENSATION",
      items |-> <<
        "The Client agrees to pay the Provider a total amount of €"
          \o toLocaleString(data.paymentAmount)
          \o " (excluding VAT) for the services described herein.",
        "Payment terms: " \o data.paymentTerms,
        "All invoices shall be paid within thirty (30) days of receipt unless otherwise specified.",
        "Late payments shall accrue interest at a rate of 1.5% per month or the maximum rate permitted by law, whichever is lower." >>],
     [title |-> "TERM AND TERMINATION",
      items |-> <<
        "This Agreement shall commence on the Effective Date and shall continue until all services have been completed and accepted by the Client.",
        "Either party may terminate this Agreement for convenience upon thirty (30) days prior written notice to the other party.",
        "Either party may terminate this Agreement immediately upon written notice if the other party materially breaches any provision of this Agreement and fails to cure such breach within fifteen (15) days of receiving written notice thereof.",
        "Upon termination, the Client shall pay the Provider for all services satisfactorily rendered up to the date of termination." >>],
     [title |-> "CONFIDENTIALITY",
      items |-> <<
        "Each party agrees to maintain the confidentiality of any proprietary or confidential information received from the other party during the term of this Agreement.",
        "Confidential information shall not include information that: (a) is or becomes publicly available through no fault of the receiving party; (b) was rightfully in the receiving party's possession prior to disclosure; or (c) is independently developed by the receiving party.",
        "This confidentiality obligation shall survive the termination of this Agreement for a period of three (3) years." >>],
     [title |-> "INTELLECTUAL PROPERTY",
      items |-> <<
        "All intellectual property rights in any work product created by the Provider specifically for the Client under this Agreement shall be assigned to the Client upon full payment.",
        "The Provider retains all rights to pre-existing materials, tools, and methodologies used in performing the services.",
        "The Provider grants the Client a non-exclusive, perpetual license to use any pre-existing materials incorporated into the deliverables." >>],
     [title |-> "LIMITATION OF LIABILITY",
      items |-> <<
        "Neither party shall be liable to the other for any indirect, incidental, special, consequential, or punitive damages arising out of or related to this Agreement.",
        "The Provider's total aggregate liability under this Agreement shall not exceed the total amount paid by the Client under this Agreement.",
        "The limitations set forth in this section shall not apply to breaches of confidentiality obligations or gross negligence or willful misconduct." >>],
     [title |-> "GENERAL PROVISIONS",
      items |-> <<
        "This Agreement constitutes the entire agreement between the parties with respect to the subject matter hereof and supersedes all prior negotiations, representations, or agreements relating thereto.",
        "This Agreement shall be governed by and construed in accordance with the laws of the Netherlands, without regard to its conflict of laws principles.",
        "Any disputes arising out of or in connection with this Agreement shall be submitted to the exclusive jurisdiction of the courts of Amsterdam, the Netherlands.",
        "Any amendments or modifications to this Agreement must be made in writing and signed by both parties.",
        "If any provision of this Agreement is held to be invalid or unenforceable, the remaining provisions shall continue in full force and effect." >>] >>

----------------------------------------------------------------------------
(* renderSections, renderSection *)

\* const sections = this.buildSections()
BuildSections == [op |-> "buildSections"]

\* a buildSections that drops its last section
SectionsButLast ==
  IF HasAmount THEN SubSeq(buildSections, 1, Len(buildSections) - 1) ELSE <<>>

\* the sections the loop of renderSections runs over
Sections == IF HasAmount THEN buildSections ELSE <<>>

\* for (const section of sections) this.renderSection(sectionNumber++, section)
renderSectionsOps ==
  <<BuildSections>> \o [i \in 1..Len(Sections) |-> Call("renderSection", i)]

\* items that are all labelled as the first of their section
ItemOpsAllFirst(sectionNumber, items, itemNumber) ==
  [k \in 1..(2 * Len(items)) |->
     IF k % 2 = 1
     THEN Text(IntStr(sectionNumber) \o ".1  " \o items[(k + 1) \div 2], ItemOpts)
     ELSE MoveDown(5)]

\* items that each check the page before they are drawn
ItemOpsChecked(sectionNumber, items, itemNumber) ==
  [k \in 1..(3 * Len(items)) |->
     CASE k % 3 = 1 -> CheckPage(SectionReserve)
       [] k % 3 = 2 -> Text(IntStr(sectionNumber) \o "." \o IntStr((k + 1) \div 3)
                              \o "  " \o items[(k + 1) \div 3], ItemOpts)
       [] OTHER -> MoveDown(5)]

RECURSIVE ItemOps(_, _, _)
ItemOps(sectionNumber, items, itemNumber) ==
  IF itemNumber > Len(items) THEN <<>>
  ELSE << Text(IntStr(sectionNumber) \o "." \o IntStr(itemNumber) \o "  "
                 \o items[itemNumber], ItemOpts),
          MoveDown(5) >>
       \o ItemOps(sectionNumber, items, itemNumber + 1)

renderSectionOps(sectionNumber) ==
  LET section == buildSections[sectionNumber]
  IN  << CheckPage(SectionReserve),
         FontSize(12), Font("Helvetica-Bold"),
         Text(IntStr(sectionNumber) \o ". " \o section.title, NoOpts),
         MoveDown(5),
         FontSize(11), Font("Helvetica") >>
      \o ItemOps(sectionNumber, section.items, 1)
      \o << MoveDown(5) >>

----------------------------------------------------------------------------
(* renderSignatureBlock, renderSignatureRow *)

\* 75% of the page width, the margins not taken off
signatureWidthOfPage == (Page.width * 75) \div 100

\* const signatureWidth = pageWidth * 0.75
signatureWidth ==
  ((Page.width - Page.margins.left - Page.margins.right) * 75) \div 100

leftX == Page.margins.left

RowLabel(row) == IF row = 1 THEN "CLIENT" ELSE "PROVIDER"

RowName(row) == IF row = 1 THEN data.clientName ELSE data.providerName

RowMarker(row) == IF row = 1 THEN "{{ClientSignature}}" ELSE "{{ProviderSignature}}"

RowStart(row) == IF row = 1 THEN starts.clientStartY ELSE starts.providerStartY

\* a marker that leaves its white fill colour in force
MarkerOpsNoRestore(x, y, signatureMarker) ==
  IF options.includeSignatureMarkers
  THEN << FontSize(1), FillColor("#ffffff"),
          TextAt(signatureMarker, x, y + Pt(25), NoOpts) >>
  ELSE <<>>

MarkerOps(x, y, signatureMarker) ==
  IF options.includeSignatureMarkers
  THEN << FontSize(1), FillColor("#ffffff"),
          TextAt(signatureMarker, x, y + Pt(25), NoOpts),
          FillColor("#000000") >>
  ELSE <<>>

\* a row that does not set the font size again after its marker
renderSignatureRowOpsSmall(x, y, width, label, name, signatureMarker) ==
  LET lineY == y + Pt(85)
  IN  << FontSize(10), Font("Helvetica"),
         TextAt(label, x, y, [width |-> width]) >>
      \o MarkerOps(x, y, signatureMarker)
      \o << MoveTo(x, lineY), LineTo(x + width - Pt(20), lineY), Stroke,
            Font("Helvetica"),
            TextAt("Name: " \o name, x, lineY + Pt(8), [width |-> width]),
            TextAt("Title: _______________________", x, lineY + Pt(23), [width |-> width]),
            TextAt("Date: _______________________", x, lineY + Pt(38), [width |-> width]) >>

\* a row that moves the cursor past itself
renderSignatureRowOpsWriting(x, y, width, label, name, signatureMarker) ==
  LET lineY == y + Pt(85)
  IN  << FontSize(10), Font("Helvetica"),
         TextAt(label, x, y, [width |-> width]) >>
      \o MarkerOps(x, y, signatureMarker)
      \o << MoveTo(x, lineY), LineTo(x + width - Pt(20), lineY), Stroke,
            FontSize(10), Font("Helvetica"),
            TextAt("Name: " \o name, x, lineY + Pt(8), [width |-> width]),
            TextAt("Title: _______________________", x, lineY + Pt(23), [width |-> width]),
            TextAt("Date: _______________________", x, lineY + Pt(38), [width |-> width]),
            WriteY("clientStartY", Pt(170)) >>

renderSignatureRowOps(x, y, width, label, name, signatureMarker) ==
  LET lineY == y + Pt(85)
  IN  << FontSize(10), Font("Helvetica"),
         TextAt(label, x, y, [width |-> width]) >>
      \o MarkerOps(x, y, signatureMarker)
      \o << MoveTo(x, lineY), LineTo(x + width - Pt(20), lineY), Stroke,
            FontSize(10), Font("Helvetica"),
            TextAt("Name: " \o name, x, lineY + Pt(8), [width |-> width]),
            TextAt("Title: _______________________", x, lineY + Pt(23), [width |-> width]),
            TextAt("Date: _______________________", x, lineY + Pt(38), [width |-> width]) >>

renderSignatureBlockOps ==
  << CheckPage(SignatureReserve),
     MoveDown(20),
     FontSize(11), Font("Helvetica"),
     Text("IN WITNESS WHEREOF, the parties hereto have executed this Agreement as of the date first written above.",
          Justify),
     MoveDown(30),
     ReadY("clientStartY"),
     Call("renderSignatureRow", 1),
     WriteY("clientStartY", Pt(170)),
     ReadY("providerStartY"),
     Call("renderSignatureRow", 2),
     WriteY("providerStartY", Pt(140)) >>

\* the statements of the method the executor is in
Body(fn, arg) ==
  CASE fn = "renderHeader" -> renderHeaderOps
    [] fn = "renderPreamble" -> renderPreambleOps
    [] fn = "renderSections" -> renderSectionsOps
    [] fn = "renderSection" -> renderSectionOps(arg)
    [] fn = "renderSignatureBlock" -> renderSignatureBlockOps
    [] fn = "renderSignatureRow" ->
         renderSignatureRowOps(leftX, RowStart(arg), signatureWidth,
                               RowLabel(arg), RowName(arg), RowMarker(arg))

----------------------------------------------------------------------------
(* build *)

\* this.doc.on(event, listener)
On(event) == [op |-> "on", s |-> event]

\* this.doc.end()
End == [op |-> "end"]

\* build() with the listeners registered after the header has been drawn
buildOpsListenLate ==
  << Call("renderHeader", 0),
     On("data"), On("end"), On("error"),
     Call("renderPreamble", 0),
     Call("renderSections", 0), Call("renderSignatureBlock", 0),
     End >>

\* build() with the preamble rendered before the header
buildOpsSwapped ==
  << On("data"), On("end"), On("error"),
     Call("renderPreamble", 0), Call("renderHeader", 0),
     Call("renderSections", 0), Call("renderSignatureBlock", 0),
     End >>

\* the executor of the promise: three listeners, then the try block
buildOps ==
  << On("data"), On("end"), On("error"),
     Call("renderHeader", 0), Call("renderPreamble", 0),
     Call("renderSections", 0), Call("renderSignatureBlock", 0),
     End >>

\* the first statement of build inside try { }
TryFrom == 4

Statements(fn, arg) == IF fn = "build" THEN buildOps ELSE Body(fn, arg)

Frame(fn, arg) == [fn |-> fn, arg |-> arg, k |-> 1]

Running == pc.status = "running"

Top == pc.stack[Len(pc.stack)]

\* the statement the executor is about to run
Current == Statements(Top.fn, Top.arg)[Top.k]

\* the frames left once the frame on top has run its statement: a method that
\* has run its last statement returns to its caller
RECURSIVE Unwind(_)
Unwind(stack) ==
  IF stack = <<>> THEN <<>>
  ELSE LET f == stack[Len(stack)]
       IN  IF f.k > Len(Statements(f.fn, f.arg))
           THEN Unwind(SubSeq(stack, 1, Len(stack) - 1))
           ELSE stack

Advanced(stack) ==
  [stack EXCEPT ![Len(stack)] = [@ EXCEPT !.k = @ + 1]]

\* the render methods build calls directly
Phases == {"renderHeader", "renderPreamble", "renderSections", "renderSignatureBlock"}

\* the method build called that the executor is in
PhaseOf(stack) == IF Len(stack) >= 2 THEN stack[2].fn ELSE "build"

----------------------------------------------------------------------------
(* The PDFKit document *)

\* new PDFDocument({ margin, size, bufferPages: true }): cursor at the top
\* margin of the first page, PDFKit's default style, no listener yet
NewDocument ==
  [y |-> Page.margins.top, fontSize |-> 12, font |-> "Helvetica",
   fillColor |-> "black", listeners |-> {}, ended |-> FALSE]

\* a check that also breaks the page at the threshold itself
NeedsPageAtThreshold(y, reserve) == y >= Page.height - Pt(options.margin) - Pt(reserve)

\* this.doc.y > this.doc.page.height - this.options.margin - reserve
NeedsPage(y, reserve) == y > Page.height - Pt(options.margin) - Pt(reserve)

\* cursor positions a text or a moveDown may end at, as sampled by the model:
\* the top of a page and the two page-break thresholds, each with the
\* position one unit (a hundredth of a point) under it
YGrid ==
  LET t100 == Page.height - Pt(options.margin) - Pt(100)
      t400 == Page.height - Pt(options.margin) - Pt(400)
  IN  {Page.margins.top, t400, t400 + 1, t100, t100 + 1}

\* moveDown: the cursor moves down by the given number of lines of the
\* backend's line height, with no page break
Land(pos) == {pos} \cup {v \in YGrid : v >= pos}

\* a text that ends on the page it starts on
Fit(pos) == {v \in Land(pos) : v <= MaxY}

\* a text that the backend continues on a new page
Break == {v \in YGrid : v <= MaxY}

\* the height of a line of Helvetica at a font size (PDFKit: 1.156 em)
LineHeight(size) == (Pt(size) * 1156) \div 1000

\* the width the backend wraps a text in: the width option, or what is left
\* of the page's content box at the text's x
WrapWidth(op) ==
  IF op.op = "textAt"
  THEN IF "width" \in DOMAIN op.o THEN op.o.width
       ELSE Page.width - Page.margins.right - op.x
  ELSE Page.width - Page.margins.left - Page.margins.right

\* the most lines a text can take: no glyph is wider than the font size
MaxLines(op) ==
  LET n == Len(op.s) * Pt(doc.fontSize)
      w == WrapWidth(op)
  IN  IF n <= w THEN 1 ELSE (n + w - 1) \div w

LineGap(op) == IF "lineGap" \in DOMAIN op.o THEN Pt(op.o.lineGap) ELSE 0

\* the backend starts a new page before a line that does not fit above the
\* bottom margin: a text at pos may continue on a new page when its last
\* possible line does not fit, and is all on a new page when its first does not
MayBreak(op, pos) ==
  pos + MaxLines(op) * (LineHeight(doc.fontSize) + LineGap(op)) > MaxY

MustBreak(op, pos) == pos + LineHeight(doc.fontSize) > MaxY

\* the backends with fixed metrics: "compact" sets every text on one line,
\* "wrapped" on the most lines it can take
Backends == {"compact", "wrapped"}

\* the lines a backend with fixed metrics sets a text on
Lines(op) == IF backend = "wrapped" THEN MaxLines(op) ELSE 1

\* a text drawn at pos by a backend with fixed metrics: the lines that fit
\* above the bottom margin stay on the page, the others go on a new page
Measured(op, pos) ==
  LET lh   == LineHeight(doc.fontSize) + LineGap(op)
      room == IF pos > MaxY THEN 0 ELSE (MaxY - pos) \div lh
      over == Lines(op) - room
  IN  IF over <= 0
      THEN [d |-> [doc EXCEPT !.y = pos + Lines(op) * lh], broke |-> FALSE]
      ELSE [d |-> [doc EXCEPT !.y = Page.margins.top + over * lh], broke |-> TRUE]

\* where a text drawn at pos leaves the cursor, with whether the backend
\* added a page for it
AfterText(op, pos) ==
  IF backend \in Backends THEN {Measured(op, pos)}
  ELSE {[d |-> [doc EXCEPT !.y = v], broke |-> FALSE] :
           v \in IF MustBreak(op, pos) THEN {} ELSE Fit(pos)}
       \cup {[d |-> [doc EXCEPT !.y = v], broke |-> TRUE] :
           v \in IF MayBreak(op, pos) THEN Break ELSE {}}

\* moveDown(lines): a backend with fixed metrics moves the cursor by that many
\* line heights of the font size in force
AfterMoveDown(op) ==
  IF backend \in Backends
  THEN {doc.y + (op.n * LineHeight(doc.fontSize)) \div 10}
  ELSE Land(doc.y)

\* this.doc.addPage()
AddPage == [op |-> "addPage"]

\* the backend calls a statement makes: a page-break check calls addPage when
\* the cursor is past its threshold, the statements on locals call nothing
Calls(op) ==
  CASE op.op = "checkPage" -> IF NeedsPage(doc.y, op.n) THEN <<AddPage>> ELSE <<>>
    [] op.op \in {"readY", "call", "buildSections"} -> <<>>
    [] OTHER -> <<op>>

\* a cursor moved on from where the drawn text left it
WrittenYRelative(name, offset) == doc.y + offset

\* the value of <name> + offset
WrittenY(name, offset) == starts[name] + offset

\* the document after the backend has handled a call, with whether the
\* backend added a page of its own accord
AfterCall(op) ==
  CASE op.op = "fontSize" -> {[d |-> [doc EXCEPT !.fontSize = op.n], broke |-> FALSE]}
    [] op.op = "font" -> {[d |-> [doc EXCEPT !.font = op.s], broke |-> FALSE]}
    [] op.op = "fillColor" -> {[d |-> [doc EXCEPT !.fillColor = op.s], broke |-> FALSE]}
    [] op.op = "text" -> AfterText(op, doc.y)
    [] op.op = "textAt" -> AfterText(op, op.y)
    [] op.op = "moveDown" ->
         {[d |-> [doc EXCEPT !.y = v], broke |-> FALSE] : v \in AfterMoveDown(op)}
    [] op.op \in {"moveTo", "lineTo", "stroke"} -> {[d |-> doc, broke |-> FALSE]}
    [] op.op = "addPage" -> {[d |-> [doc EXCEPT !.y = Page.margins.top], broke |-> FALSE]}
    [] op.op = "writeY" -> {[d |-> [doc EXCEPT !.y = WrittenY(op.s, op.n)], broke |-> FALSE]}
    [] op.op = "checkPage" ->
         IF Calls(op) = <<>> THEN {[d |-> doc, broke |-> FALSE]}
         ELSE {[d |-> [doc EXCEPT !.y = Page.margins.top], broke |-> FALSE]}
    [] op.op = "on" -> {[d |-> [doc EXCEPT !.listeners = @ \cup {op.s}], broke |-> FALSE]}
    [] op.op = "end" -> {[d |-> [doc EXCEPT !.ended = TRUE], broke |-> FALSE]}
    [] OTHER -> {[d |-> doc, broke |-> FALSE]}

----------------------------------------------------------------------------
(* The promise *)

Pending == [kind |-> "pending", buf |-> <<>>, err |-> "none"]

\* a completion callback that overwrites an outcome already delivered
resolveOverwrites(o, value) == [kind |-> "resolved", buf |-> value, err |-> "none"]

\* a completion callback that settles nothing
resolveDropped(o, value) == o

resolve(o, value) ==
  IF o.kind = "pending" THEN [kind |-> "resolved", buf |-> value, err |-> "none"] ELSE o

\* a failure callback that overwrites an outcome already delivered
rejectOverwrites(o, error) == [kind |-> "rejected", buf |-> <<>>, err |-> error]

reject(o, error) ==
  IF o.kind = "pending" THEN [kind |-> "rejected", buf |-> <<>>, err |-> error] ELSE o

\* Buffer.concat(list)
RECURSIVE concat(_)
concat(list) == IF list = <<>> THEN <<>> ELSE Head(list) \o concat(Tail(list))

----------------------------------------------------------------------------
(* History kept for the properties *)

NoCheck == [fn |-> "none", arg |-> 0, reserve |-> 0, y |-> 0, added |-> FALSE]

NoSig == [checked |-> FALSE, added |-> FALSE, rows |-> 0, split |-> FALSE,
          rowLog |-> <<>>, before |-> -1]

\* a draw call issued by the render method fn
Drawn(log, fn) == IF log # <<>> /\ log[Len(log)] = fn THEN log ELSE Append(log, fn)

Entry(fn, ev) == [fn |-> fn, ev |-> ev]

\* the calls and returns of the render methods build calls, and doc.end()
Logged(log, op, stack, left) ==
  LET called == IF Len(stack) = 1 /\ op.op \in {"call", "end"}
                THEN Append(log, Entry(IF op.op = "end" THEN "end" ELSE op.s, "call"))
                ELSE log
  IN  IF Len(stack) >= 2 /\ Len(left) <= 1
      THEN Append(called, Entry(stack[2].fn, "return"))
      ELSE called

\* a positioned draw of a signature row, with the style it is drawn in
RowDraw(op) ==
  [op |-> op.op, s |-> IF op.op = "textAt" THEN op.s ELSE "", x |-> op.x, y |-> op.y,
   fontSize |-> doc.fontSize, fillColor |-> doc.fillColor]

SigAfter(op, r) ==
  IF Top.fn = "renderSignatureBlock" /\ op.op = "checkPage"
    THEN [sig EXCEPT !.checked = TRUE, !.added = (Calls(op) # <<>>)]
  ELSE IF op.op = "call" /\ op.s = "renderSignatureRow"
    THEN [sig EXCEPT !.rows = op.n, !.rowLog = <<>>]
  ELSE IF Top.fn = "renderSignatureRow" /\ op.op \in {"textAt", "moveTo", "lineTo"}
    THEN [sig EXCEPT !.rowLog = Append(@, RowDraw(op)),
                     !.split = @ \/ (r.broke /\ (sig.rows # 1 \/ sig.rowLog # <<>>))]
  ELSE IF op.op = "writeY"
    THEN [sig EXCEPT !.before = doc.y]
  ELSE sig

\* the calls on the document are recorded for the builds that are compared
\* call by call: those against a backend with fixed metrics
Recording == backend # "sampled"

\* a call as the document receives it: the call and the text style in force
Issued(op) ==
  [i \in DOMAIN Calls(op) |->
     [call |-> Calls(op)[i], fontSize |-> doc.fontSize, font |-> doc.font,
      fillColor |-> doc.fillColor]]

----------------------------------------------------------------------------
(* The executor of build() *)

\* undefined.toLocaleString(...) in buildSections
TypeError == "TypeError"

\* a statement that throws by itself: buildSections without paymentAmount
Throws(op) == op.op = "buildSections" /\ ~HasAmount

\* the executor runs the statement it is at, in the method fn
Step(fn) ==
  /\ Running
  /\ Top.fn = fn
  /\ ~Throws(Current)
  /\ LET op == Current
         pushed == IF op.op = "call"
                   THEN Append(Advanced(pc.stack), Frame(op.s, op.n))
                   ELSE Advanced(pc.stack)
         left == Unwind(pushed)
     IN  /\ \E r \in AfterCall(op) :
              /\ doc' = r.d
              /\ sig' = SigAfter(op, r)
         /\ pc' = [status |-> IF left = <<>> THEN "returned" ELSE "running",
                   stack |-> left]
         /\ starts' = IF op.op = "readY" THEN [starts EXCEPT ![op.s] = doc.y] ELSE starts
         /\ drawLog' = IF Calls(op) # <<>> /\ op.op \notin {"on", "end"}
                       THEN Drawn(drawLog, PhaseOf(pc.stack)) ELSE drawLog
         /\ phaseLog' = Logged(phaseLog, op, pc.stack, left)
         /\ checks' = IF op.op = "checkPage"
                        THEN [fn |-> Top.fn, arg |-> Top.arg, reserve |-> op.n,
                              y |-> doc.y, added |-> (Calls(op) # <<>>)]
                      ELSE IF op.op \in {"fontSize", "font", "fillColor"}
                        THEN checks
                      ELSE NoCheck
         /\ opLog' = IF Recording THEN opLog \o Issued(op) ELSE opLog
  /\ UNCHANGED <<data, options, chunks, outcome, emitted, failures, endEvent,
                 context>>

build == Step("build")

renderHeader == Step("renderHeader")

renderPreamble == Step("renderPreamble")

renderSections == Step("renderSections")

renderSection == Step("renderSection")

renderSignatureBlock == Step("renderSignatureBlock")

renderSignatureRow == Step("renderSignatureRow")

\* the exception a backend call throws
Thrown == "exception"

InTry == Len(pc.stack) >= 2 \/ Top.k >= TryFrom

\* a catch clause that swallows the exception
catchSwallows ==
  /\ Running
  /\ InTry
  /\ Calls(Current) # <<>>
  /\ pc' = [status |-> "caught", stack |-> <<>>]
  /\ checks' = NoCheck
  /\ UNCHANGED <<data, options, doc, chunks, outcome, starts, emitted, failures,
                 endEvent, phaseLog, drawLog, sig, opLog, context>>

\* catch (error) { reject(error) }: the backend call the executor is at
\* throws, or the statement itself does
catch ==
  /\ Running
  /\ InTry
  /\ Calls(Current) # <<>> \/ Throws(Current)
  /\ pc' = [status |-> "caught", stack |-> <<>>]
  /\ outcome' = reject(outcome, IF Throws(Current) THEN TypeError ELSE Thrown)
  /\ checks' = NoCheck
  /\ UNCHANGED <<data, options, doc, chunks, starts, emitted, failures, endEvent,
                 phaseLog, drawLog, sig, opLog, context>>

----------------------------------------------------------------------------
(* The events of the document and the listeners build registers *)

\* what the bytes a backend with fixed metrics emits depend on: the texts it
\* was given to draw (here the sum of their lengths, modulo 251)
RECURSIVE TextLength(_, _, _)
TextLength(log, lo, hi) ==
  IF lo > hi THEN 0
  ELSE IF lo = hi
    THEN IF log[lo].call.op \in {"text", "textAt"} THEN Len(log[lo].call.s) ELSE 0
  ELSE LET mid == (lo + hi) \div 2
       IN  TextLength(log, lo, mid) + TextLength(log, mid + 1, hi)

Checksum(log) == TextLength(log, 1, Len(log)) % 251

\* the i-th chunk a document emits that received the calls of log: i bytes
ChunkOf(log, i) == [j \in 1..i |-> i + Checksum(log)]

\* the i-th chunk the backend emits
Chunk(i) == ChunkOf(opLog, i)

\* the i-th failure the backend emits
Failure(i) == "error" \o IntStr(i)

\* a data listener that puts each chunk in front of the earlier ones
onDataUnshift ==
  /\ "data" \in doc.listeners
  /\ emitted < MaxChunks
  /\ emitted' = emitted + 1
  /\ chunks' = <<Chunk(emitted + 1)>> \o chunks
  /\ UNCHANGED <<data, options, doc, pc, outcome, starts, failures, endEvent,
                 phaseLog, drawLog, checks, sig, opLog, context>>

\* this.doc.on("data", (chunk) => chunks.push(chunk))
onData ==
  /\ "data" \in doc.listeners
  /\ emitted < MaxChunks
  /\ emitted' = emitted + 1
  /\ chunks' = Append(chunks, Chunk(emitted + 1))
  /\ UNCHANGED <<data, options, doc, pc, outcome, starts, failures, endEvent,
                 phaseLog, drawLog, checks, sig, opLog, context>>

\* this.doc.on("end", () => resolve(Buffer.concat(chunks))): emitted once, in a
\* later turn of the event loop than the doc.end() call; a backend with fixed
\* metrics has emitted all its chunks by then
onEnd ==
  /\ "end" \in doc.listeners
  /\ doc.ended
  /\ ~Running
  /\ ~endEvent.emitted
  /\ backend \in Backends => emitted = MaxChunks
  /\ endEvent' = [emitted |-> TRUE, before |-> emitted]
  /\ outcome' = resolve(outcome, concat(chunks))
  /\ UNCHANGED <<data, options, doc, pc, chunks, starts, emitted, failures,
                 phaseLog, drawLog, checks, sig, opLog, context>>

\* this.doc.on("error", reject)
onError ==
  /\ "error" \in doc.listeners
  /\ Len(failures) < MaxFailures
  /\ LET error == Failure(Len(failures) + 1)
     IN  /\ failures' = Append(failures, [err |-> error,
                                          pending |-> outcome.kind = "pending"])
         /\ outcome' = reject(outcome, error)
  /\ UNCHANGED <<data, options, doc, pc, chunks, starts, emitted, endEvent,
                 phaseLog, drawLog, checks, sig, opLog, context>>

----------------------------------------------------------------------------
(* generateContractPdf(data, options): a builder is constructed and build() *)
(* is called on it                                                          *)

\* new ContractPdfBuilder(data, options) followed by build(): the executor is
\* at its first statement
Start ==
  /\ doc = NewDocument
  /\ pc = [status |-> "running", stack |-> <<Frame("build", 0)>>]
  /\ chunks = <<>>
  /\ outcome = Pending
  /\ starts = [clientStartY |-> -1, providerStartY |-> -1]
  /\ emitted = 0
  /\ failures = <<>>
  /\ endEvent = [emitted |-> FALSE, before |-> 0]
  /\ phaseLog = <<>>
  /\ drawLog = <<>>
  /\ checks = NoCheck
  /\ sig = NoSig
  /\ opLog = <<>>

\* a postback body not given yet
NoBody == [t |-> "none"]

\* parsePostback not called yet
NotParsed == [kind |-> "none"]

\* no other generateContractPdf call
NoBuilder == [self |-> 0]

\* generateContractPdf called by something else than main() of the demo
NoDemo == [at |-> "none"]

\* one generateContractPdf call and nothing else
Alone ==
  /\ self = 1
  /\ other = NoBuilder
  /\ body = NoBody
  /\ parsed = NotParsed
  /\ demo = NoDemo

\* a build of the minimal contract with the constructor's default options
Init ==
  /\ data = MinimalData
  /\ options = DefaultOptions
  /\ backend = "sampled"
  /\ Alone
  /\ Start

Next ==
  \/ build
  \/ renderHeader
  \/ renderPreamble
  \/ renderSections
  \/ renderSection
  \/ renderSignatureBlock
  \/ renderSignatureRow
  \/ catch
  \/ onData
  \/ onEnd
  \/ onError

Spec == Init /\ [][Next]_vars

\* The build of the minimal contract against a backend with fixed metrics
\* whose stream events come in later turns of the event loop than the
\* executor. The executor is one synchronous run, so it goes on to its end or
\* to its catch; the backend emits the chunks it has and, told of the end of
\* input, its end event.
LiveInit ==
  /\ data = MinimalData
  /\ options = DefaultOptions
  /\ backend \in Backends
  /\ Alone
  /\ Start

Executor ==
  \/ build
  \/ renderHeader
  \/ renderPreamble
  \/ renderSections
  \/ renderSection
  \/ renderSignatureBlock
  \/ renderSignatureRow

LiveNext ==
  \/ Executor
  \/ catch
  \/ ~Running /\ onData
  \/ ~Running /\ onEnd
  \/ ~Running /\ onError

LiveSpec ==
  /\ LiveInit /\ [][LiveNext]_vars
  /\ WF_vars(Executor) /\ WF_vars(~Running /\ onData) /\ WF_vars(onEnd)

----------------------------------------------------------------------------
(* Two generateContractPdf calls: each constructs a builder with its own    *)
(* data, options and document and calls build() on it. The executor of a    *)
(* build runs to its end before anything else does; the events of the two   *)
(* documents then arrive in any order.                                      *)

\* the builder of the call the variables belong to
Mine ==
  [data |-> data, options |-> options, doc |-> doc, pc |-> pc, chunks |-> chunks,
   outcome |-> outcome, starts |-> starts, emitted |-> emitted,
   failures |-> failures, endEvent |-> endEvent, phaseLog |-> phaseLog,
   drawLog |-> drawLog, checks |-> checks, sig |-> sig, opLog |-> opLog,
   self |-> self]

\* new ContractPdfBuilder(d, o) followed by build(), for the call number id
Fresh(d, o, id) ==
  [data |-> d, options |-> o,
   doc |-> [NewDocument EXCEPT !.y = Pt(o.margin)],
   pc |-> [status |-> "running", stack |-> <<Frame("build", 0)>>],
   chunks |-> <<>>, outcome |-> Pending,
   starts |-> [clientStartY |-> -1, providerStartY |-> -1],
   emitted |-> 0, failures |-> <<>>,
   endEvent |-> [emitted |-> FALSE, before |-> 0],
   phaseLog |-> <<>>, drawLog |-> <<>>, checks |-> NoCheck, sig |-> NoSig,
   opLog |-> <<>>, self |-> id]

\* a chunk list that the two builds share
OwnedButChunks(b) == [b EXCEPT !.chunks = chunks]

\* what a builder owns: the fields of its instance and the locals of its
\* build() call
Owned(b) == b

\* control passes to the other call: its executor starts, or a listener of
\* its document runs next
Switch ==
  /\ other # NoBuilder
  /\ ~Running
  /\ LET b == Owned(other)
     IN  /\ data' = b.data
         /\ options' = b.options
         /\ doc' = b.doc
         /\ pc' = b.pc
         /\ chunks' = b.chunks
         /\ outcome' = b.outcome
         /\ starts' = b.starts
         /\ emitted' = b.emitted
         /\ failures' = b.failures
         /\ endEvent' = b.endEvent
         /\ phaseLog' = b.phaseLog
         /\ drawLog' = b.drawLog
         /\ checks' = b.checks
         /\ sig' = b.sig
         /\ opLog' = b.opLog
         /\ self' = b.self
  /\ other' = Mine
  /\ UNCHANGED <<backend, body, parsed, demo>>

\* the second call's contract: the same, or with another client name
SecondData == {MinimalData, [MinimalData EXCEPT !.clientName = ""]}

\* the second call's options: the same, or without the markers
SecondOptions ==
  {DefaultOptions, [DefaultOptions EXCEPT !.includeSignatureMarkers = FALSE]}

PairInit ==
  /\ data = MinimalData
  /\ options = DefaultOptions
  /\ backend \in Backends
  /\ self = 1
  /\ \E d \in SecondData, o \in SecondOptions : other = Fresh(d, o, 2)
  /\ body = NoBody
  /\ parsed = NotParsed
  /\ demo = NoDemo
  /\ Start

\* the documents emit their events after the executor has returned
Returned == pc.status = "returned"

PairNext ==
  \/ build
  \/ renderHeader
  \/ renderPreamble
  \/ renderSections
  \/ renderSection
  \/ renderSignatureBlock
  \/ renderSignatureRow
  \/ Returned /\ onData
  \/ Returned /\ onEnd
  \/ Returned /\ onError
  \/ Switch

PairSpec == PairInit /\ [][PairNext]_vars

----------------------------------------------------------------------------
(* The layout of a build for every contract and every option: the draw calls *)
(* of build() and the exception one of them may throw. The listeners write  *)
(* chunks and the promise only, so the layout is the same with the events.  *)

LayoutInit ==
  /\ data \in ContractDataSet
  /\ options \in PdfOptionsSet
  /\ backend = "sampled"
  /\ Alone
  /\ Start

LayoutNext ==
  \/ build
  \/ renderHeader
  \/ renderPreamble
  \/ renderSections
  \/ renderSection
  \/ renderSignatureBlock
  \/ renderSignatureRow
  \/ catch

LayoutSpec == LayoutInit /\ [][LayoutNext]_vars

----------------------------------------------------------------------------
(* The builds of the sample contracts, typed and untyped, with markers on  *)
(* and off, against the two backends with fixed metrics; the calls issued  *)
(* on the document are recorded.                                           *)

DataInit ==
  /\ data \in DataSamples
  /\ options \in {o \in PdfOptionsSet :
                     o.margin = DefaultMargin /\ o.pageSize = "A4"}
  /\ backend \in Backends
  /\ Alone
  /\ Start

DataSpec == DataInit /\ [][LayoutNext]_vars

----------------------------------------------------------------------------
(* Properties of build(): the promise and the order of the calls *)

Range(seq) == {seq[i] : i \in DOMAIN seq}

IsPrefix(a, b) == Len(a) <= Len(b) /\ a = SubSeq(b, 1, Len(a))

Rejected(error) == [kind |-> "rejected", buf |-> <<>>, err |-> error]

AllListeners == {"data", "end", "error"}

PhaseOrder ==
  <<"renderHeader", "renderPreamble", "renderSections", "renderSignatureBlock">>

FullLog ==
  << Entry("renderHeader", "call"), Entry("renderHeader", "return"),
     Entry("renderPreamble", "call"), Entry("renderPreamble", "return"),
     Entry("renderSections", "call"), Entry("renderSections", "return"),
     Entry("renderSignatureBlock", "call"), Entry("renderSignatureBlock", "return"),
     Entry("end", "call") >>

\* the positioned draws of one complete signature row
RowDraws == IF options.includeSignatureMarkers THEN 7 ELSE 6

\* the Date line of the Provider row, the last draw of the signature block, is out
LastDrawIssued == sig.rows = 2 /\ Len(sig.rowLog) = RowDraws

RECURSIVE EmittedBytes(_)
EmittedBytes(n) == IF n = 0 THEN <<>> ELSE EmittedBytes(n - 1) \o Chunk(n)

\* C1 as stated: in a build in which no draw call throws, once the backend has
\* emitted a failure (during the draw calls or after doc.end()), build() is
\* rejected with a failure the backend emitted and is not resolved with a buffer.
C1_AnyFailureRejects ==
  (failures # <<>> /\ pc.status # "caught") =>
     /\ outcome.kind = "rejected"
     /\ \E i \in DOMAIN failures : outcome.err = failures[i].err

\* C1, amended: a failure the backend emits while build() is still pending
\* rejects build() with that failure, and the build stays rejected with it
\* whatever follows (more draw calls, a thrown exception, the completion
\* event); it is never resolved with a buffer.
C1_PendingFailureRejects ==
  \A i \in DOMAIN failures :
     failures[i].pending => outcome = Rejected(failures[i].err)

\* C1 witness: the backend failed while the build was pending, chunks had been
\* collected and the completion event arrived afterwards; the build is rejected.
C1_Witness ==
  /\ failures # <<>> /\ failures[1].pending
  /\ endEvent.emitted /\ chunks # <<>>
  /\ outcome.kind = "rejected"

\* C2: the data, end and error listeners are all registered before the first
\* draw call; the executor issues every draw call and doc.end() in one run,
\* before any completion event can be delivered; doc.end() is called only after
\* the last draw call of the signature block.
C2_ListenDrawEnd ==
  /\ drawLog # <<>> => doc.listeners = AllListeners
  /\ doc.ended =>
       /\ Entry("renderSignatureBlock", "return") \in Range(phaseLog)
       /\ LastDrawIssued
  /\ Running => ~endEvent.emitted
  /\ pc.status = "returned" => doc.ended /\ drawLog = PhaseOrder

\* C2 witness: the executor has returned after the last draw and doc.end().
C2_Witness ==
  /\ pc.status = "returned" /\ doc.ended
  /\ LastDrawIssued /\ doc.listeners = AllListeners

\* C3: the render methods are entered in the order header, preamble, sections,
\* signature block, each at most once and each after the one before it has
\* returned; draw calls are issued by the method most recently entered, so none
\* of a later phase precedes one of an earlier phase; doc.end() is called only
\* when all four have run, each exactly once.
C3_FourPhasesInOrder ==
  /\ IsPrefix(phaseLog, FullLog)
  /\ IsPrefix(drawLog, PhaseOrder)
  /\ drawLog # <<>> => Entry(drawLog[Len(drawLog)], "call") \in Range(phaseLog)
  /\ \A i \in 1..(Len(drawLog) - 1) : Entry(drawLog[i], "return") \in Range(phaseLog)
  /\ doc.ended => phaseLog = FullLog /\ drawLog = PhaseOrder

\* C3 witness: the canvas is finalized after the four phases.
C3_Witness == doc.ended /\ phaseLog = FullLog /\ drawLog = PhaseOrder

\* C4 as stated: when a draw call has thrown, build() is rejected with the
\* thrown exception.
C4_ThrowRejectsWithException ==
  pc.status = "caught" => outcome = Rejected(Thrown)

\* C4, amended: when a draw call has thrown, build() is rejected and no buffer
\* is returned; it is rejected with the thrown exception unless the backend
\* emitted a failure before the throw, and then with that first failure.
C4_ThrowRejects ==
  pc.status = "caught" =>
     /\ outcome.kind = "rejected" /\ outcome.buf = <<>>
     /\ IF failures # <<>> /\ failures[1].pending
        THEN outcome.err = failures[1].err
        ELSE outcome.err = Thrown

\* C4 witness: a draw call of the signature block threw after chunks were
\* collected, and build() is rejected with the exception.
C4_Witness ==
  /\ pc.status = "caught" /\ drawLog = PhaseOrder
  /\ chunks # <<>> /\ outcome = Rejected(Thrown)

\* C5: build() is resolved only once the backend's completion event has been
\* delivered, and then with the bytes of the chunks emitted before that event,
\* in the order of emission.
C5_ResolvedAfterEndWithChunks ==
  outcome.kind = "resolved" =>
     /\ endEvent.emitted
     /\ outcome.buf = EmittedBytes(endEvent.before)

\* C5 witness: build() resolved with two chunks.
C5_Witness ==
  /\ outcome.kind = "resolved" /\ endEvent.before = 2
  /\ outcome.buf = Chunk(1) \o Chunk(2)

----------------------------------------------------------------------------
(* Properties of the layout: page breaks and the signature block *)

\* pageHeight - margin - reserve, in hundredths of a point
Threshold(reserve) ==
  PageHeight(options.pageSize) - options.margin * 100 - reserve * 100

TopOfPage == options.margin * 100

BlockReturned == Entry("renderSignatureBlock", "return") \in Range(phaseLog)

\* C6: at the page-break check of a section, a page is added if and only if the
\* cursor y is strictly greater than pageHeight - margin - 100; the cursor is
\* then at the top of the new page, or else where it was, and stays there
\* until the section's header is drawn.
C6_SectionBreak ==
  checks.fn = "renderSection" =>
     /\ checks.added <=> checks.y > Threshold(100)
     /\ doc.y = IF checks.added THEN TopOfPage ELSE checks.y
     /\ Running /\ Top.fn = "renderSection" /\ Top.arg = checks.arg
     /\ Top.k <= 4

\* C6 witness: a section after the first is about to draw its header with the
\* cursor exactly at the threshold, and no page was added.
C6_Witness ==
  /\ checks.fn = "renderSection" /\ checks.arg >= 2
  /\ checks.y = Threshold(100) /\ ~checks.added
  /\ Current.op = "text"

C8_ProviderStart ==
  /\ starts.providerStartY # -1 =>
       starts.providerStartY = starts.clientStartY + 170 * 100
  /\ (sig.rows = 2 /\ sig.rowLog # <<>>) =>
       /\ sig.rowLog[1].s = "PROVIDER"
       /\ sig.rowLog[1].y = starts.clientStartY + 170 * 100

\* C8 witness: the Provider row is being drawn although the backend had left
\* the cursor below the Provider row's start after the Client row.
C8_Witness ==
  /\ sig.rows = 2 /\ sig.rowLog # <<>>
  /\ sig.before > starts.providerStartY

\* C9: when renderSignatureBlock has returned the cursor y is the Provider
\* row's start + 140 points, that is the Client row's start + 310 points.
C9_CursorAfterBlock ==
  BlockReturned =>
     /\ doc.y = starts.providerStartY + 140 * 100
     /\ doc.y = starts.clientStartY + 310 * 100

\* C9 witness: the block has returned, and the backend had left the cursor
\* elsewhere after the Provider row's texts.
C9_Witness == BlockReturned /\ sig.before # doc.y /\ sig.before # -1

Place(draw) == [op |-> draw.op, s |-> draw.s, x |-> draw.x, y |-> draw.y]

\* the positioned draws the claim gives a signature row that starts at y0
ClaimedRow(row, y0) ==
  LET x0 == options.margin * 100
      w  == ((PageWidth(options.pageSize) - 2 * options.margin * 100) * 3) \div 4
  IN  << [op |-> "textAt", s |-> IF row = 1 THEN "CLIENT" ELSE "PROVIDER",
          x |-> x0, y |-> y0] >>
      \o (IF options.includeSignatureMarkers
          THEN << [op |-> "textAt",
                   s |-> IF row = 1 THEN "{{ClientSignature}}"
                                    ELSE "{{ProviderSignature}}",
                   x |-> x0, y |-> y0 + 2500] >>
          ELSE <<>>)
      \o << [op |-> "moveTo", s |-> "", x |-> x0, y |-> y0 + 8500],
            [op |-> "lineTo", s |-> "", x |-> x0 + w - 2000, y |-> y0 + 8500],
            [op |-> "textAt",
             s |-> "Name: " \o (IF row = 1 THEN data.clientName ELSE data.providerName),
             x |-> x0, y |-> y0 + 9300],
            [op |-> "textAt", s |-> "Title: _______________________",
             x |-> x0, y |-> y0 + 10800],
            [op |-> "textAt", s |-> "Date: _______________________",
             x |-> x0, y |-> y0 + 12300] >>

\* C10: the draws of a signature row are, in order, the role label at
\* (leftX, startY), the anchor token (markers enabled) at (leftX, startY + 25),
\* the line from (leftX, startY + 85) to (leftX + signatureWidth - 20,
\* startY + 85) and the name, title and date lines at startY + 93, + 108 and
\* + 123, with leftX the left margin and signatureWidth 0.75 of the page width
\* less both margins; a row that has been left has drawn them all.
C10_RowGeometry ==
  sig.rows \in {1, 2} =>
     LET claimed == ClaimedRow(sig.rows, RowStart(sig.rows))
     IN  /\ Len(sig.rowLog) <= Len(claimed)
         /\ \A i \in DOMAIN sig.rowLog : Place(sig.rowLog[i]) = claimed[i]
         /\ (~Running \/ Top.fn # "renderSignatureRow") =>
              (pc.status = "caught" \/ Len(sig.rowLog) = Len(claimed))

\* C10 witness: the Provider row is complete, with its anchor token.
C10_Witness ==
  /\ BlockReturned /\ sig.rows = 2 /\ Len(sig.rowLog) = 7
  /\ sig.rowLog[2].s = "{{ProviderSignature}}"

----------------------------------------------------------------------------
(* Properties of the calls a build issues, read from the recorded calls *)

\* t occurs in s
Contains(s, t) ==
  \E i \in 1..(Len(s) - Len(t) + 1) : SubSeq(s, i, i + Len(t) - 1) = t

ClientToken == "{{ClientSignature}}"

ProviderToken == "{{ProviderSignature}}"

IsText(entry) == entry.call.op \in {"text", "textAt"}

\* the positions in the recorded calls of the text draws that contain t
DrawsOf(t) == {i \in DOMAIN opLog : IsText(opLog[i]) /\ Contains(opLog[i].call.s, t)}

LastCall == opLog[Len(opLog)]

\* C11 as stated: with includeSignatureMarkers = false no text draw of the build
\* contains {{ClientSignature}} or {{ProviderSignature}}; with it true, a
\* completed build has drawn each token in exactly one text draw, the Client
\* token before the Provider token.
C11_TokensOnlyAsMarkers ==
  /\ (~options.includeSignatureMarkers /\ opLog # <<>> /\ IsText(LastCall)) =>
        /\ ~Contains(LastCall.call.s, ClientToken)
        /\ ~Contains(LastCall.call.s, ProviderToken)
  /\ (options.includeSignatureMarkers /\ pc.status = "returned") =>
        LET client   == DrawsOf(ClientToken)
            provider == DrawsOf(ProviderToken)
        IN  /\ Cardinality(client) = 1
            /\ Cardinality(provider) = 1
            /\ \A i \in client, j \in provider : i < j

\* C11 for the contracts whose fields hold no token: the two statements above.
C11_TokensOfCleanData ==
  (~Contains(data.clientName, ClientToken)) => C11_TokensOnlyAsMarkers

\* a completed build with markers, its two token draws made by the marker
\* statement: font size 1, white
C11_MarkerDraws ==
  /\ options.includeSignatureMarkers /\ pc.status = "returned"
  /\ \A i \in DrawsOf(ProviderToken) :
        opLog[i].fontSize = 1 /\ opLog[i].fillColor = "#ffffff"

----------------------------------------------------------------------------
(* Properties of two builds *)

\* both generateContractPdf calls have run their executor to the end
BothReturned == Returned /\ other # NoBuilder /\ other.pc.status = "returned"

\* the two builds have the same data and options but for includeSignatureMarkers
MarkersFlipped ==
  /\ data = other.data
  /\ options.includeSignatureMarkers # other.options.includeSignatureMarkers
  /\ [options EXCEPT !.includeSignatureMarkers = TRUE]
       = [other.options EXCEPT !.includeSignatureMarkers = TRUE]

IsDraw(entry) == entry.call.op \in {"text", "textAt", "moveTo", "lineTo", "stroke"}

IsTokenDraw(entry) ==
  entry.call.op = "textAt" /\ entry.call.s \in {ClientToken, ProviderToken}

IsVisibleDraw(entry) == IsDraw(entry) /\ ~IsTokenDraw(entry)

\* a draw as it shows: a text with its string, place, font size and fill
\* colour, a line with its coordinates
Shown(entry) ==
  IF IsText(entry)
  THEN [call |-> entry.call, fontSize |-> entry.fontSize, fillColor |-> entry.fillColor]
  ELSE [call |-> entry.call, fontSize |-> 0, fillColor |-> ""]

Visible(log) ==
  LET draws == SelectSeq(log, IsVisibleDraw)
  IN  [i \in DOMAIN draws |-> Shown(draws[i])]

TokenDraws(log) == SelectSeq(log, IsTokenDraw)

----------------------------------------------------------------------------
(* Properties of the sections *)

LowerCase == "abcdefghijklmnopqrstuvwxyz"

UpperCase == "ABCDEFGHIJKLMNOPQRSTUVWXYZ"

\* String.prototype.toUpperCase on one character
UpperChar(c) ==
  IF \E i \in 1..Len(LowerCase) : SubSeq(LowerCase, i, i) = c
  THEN LET i == CHOOSE i \in 1..Len(LowerCase) : SubSeq(LowerCase, i, i) = c
       IN  SubSeq(UpperCase, i, i)
  ELSE c

RECURSIVE toUpperCase(_)
toUpperCase(s) ==
  IF s = "" THEN ""
  ELSE toUpperCase(SubSeq(s, 1, Len(s) - 1)) \o UpperChar(SubSeq(s, Len(s), Len(s)))

\* the section names of the contract, in the documented order
SectionNames ==
  << "Scope of Services", "Compensation", "Term and Termination",
     "Confidentiality", "Intellectual Property", "Limitation of Liability",
     "General Provisions" >>

\* the loop of renderSections has the sections and is running over them
SectionsBuilt ==
  /\ Running
  /\ \E i \in 1..Len(pc.stack) : pc.stack[i].fn = "renderSections" /\ pc.stack[i].k > 1

\* C13: for every ContractData (paymentAmount a number), buildSections
\* returns exactly seven sections, and their titles are, in order and in
\* capitals, Scope of Services, Compensation, Term and Termination,
\* Confidentiality, Intellectual Property, Limitation of Liability, General
\* Provisions.
C13_SevenSections ==
  HasAmount =>
    /\ Len(Sections) = Len(SectionNames)
    /\ Len(Sections) = 7
    /\ \A i \in 1..Len(SectionNames) :
         Sections[i].title = toUpperCase(SectionNames[i])

\* C13 witness: renderSections has called buildSections on a contract with an
\* empty project description and a negative amount and renders its seventh
\* section, GENERAL PROVISIONS.
C13_Witness ==
  /\ HasAmount /\ data.projectDescription = "" /\ data.paymentAmount < 0
  /\ SectionsBuilt
  /\ Top.fn = "renderSection" /\ Top.arg = 7
  /\ Sections[Top.arg].title = "GENERAL PROVISIONS"

IsDigit(c) == c \in {"1", "2", "3", "4", "5", "6", "7", "8", "9"}

\* a text that starts with a number and a dot
IsNumbered(entry) ==
  /\ IsText(entry)
  /\ Len(entry.call.s) >= 2
  /\ IsDigit(SubSeq(entry.call.s, 1, 1))
  /\ SubSeq(entry.call.s, 2, 2) = "."

\* the numbered texts of the build, in the order drawn
NumberedTexts ==
  LET drawn == SelectSeq(opLog, IsNumbered)
  IN  [k \in DOMAIN drawn |-> drawn[k].call.s]

\* header and items of the sections from the i-th on, numbered by position
RECURSIVE NumberedFrom(_)
NumberedFrom(i) ==
  IF i > Len(Sections) THEN <<>>
  ELSE << IntStr(i) \o ". " \o Sections[i].title >>
       \o [j \in 1..Len(Sections[i].items) |->
             IntStr(i) \o "." \o IntStr(j) \o "  " \o Sections[i].items[j]]
       \o NumberedFrom(i + 1)

\* C14: in a completed build the numbered texts are, in this order, for
\* i = 1, 2, ... the header "i. TITLE" of the i-th section of buildSections,
\* once, followed by its items, the j-th labelled "i.j", j restarting at 1 in
\* every section.
C14_NumberedByPosition ==
  (HasAmount /\ Returned) => NumberedTexts = NumberedFrom(1)

\* C14 witness: a completed build has drawn 7 headers and 26 items; the 13th
\* numbered text is the second item of the third section, labelled 3.2.
C14_Witness ==
  /\ HasAmount /\ Returned
  /\ Len(NumberedTexts) = 33
  /\ SubSeq(NumberedTexts[13], 1, 5) = "3.2  "
  /\ NumberedTexts[11] = "3. TERM AND TERMINATION"

----------------------------------------------------------------------------
(* Properties of the data *)

\* the build has failed on the contract data: buildSections threw
RejectedForData == outcome.kind = "rejected" /\ outcome.err = TypeError

\* C15 as stated: no contract data, be it with empty strings, with a negative
\* paymentAmount or without paymentAmount, makes the build raise an error;
\* buildSections returns its sections and the build is never rejected on
\* account of the data.
C15_DataNeverRejected == ~RejectedForData

\* C15 for the contracts that have a paymentAmount, whatever its sign and
\* whatever the strings: the build is never rejected on account of the data.
C15_AmountNeverRejected == HasAmount => ~RejectedForData

CompensationLead == "The Client agrees to pay the Provider a total amount of "

CompensationTail == " (excluding VAT) for the services described herein."

\* the first items of the Compensation section that the build has drawn, the
\* label "2.1" and its two spaces taken off
CompensationItems ==
  { SubSeq(NumberedTexts[k], 6, Len(NumberedTexts[k])) :
      k \in { n \in DOMAIN NumberedTexts : SubSeq(NumberedTexts[n], 1, 5) = "2.1  " } }

\* what the item holds between its fixed lead and its fixed tail
EmbeddedAmount(item) ==
  SubSeq(item, Len(CompensationLead) + 1, Len(item) - Len(CompensationTail))

IsDecimal(c) == c = "0" \/ IsDigit(c)

\* the euro sign, then the number: an integer part, a comma and exactly two
\* digits
TwoFractionDigits(s) ==
  /\ Len(s) >= 5
  /\ SubSeq(s, 1, 1) = "€"
  /\ SubSeq(s, Len(s) - 2, Len(s) - 2) = ","
  /\ IsDecimal(SubSeq(s, Len(s) - 1, Len(s) - 1))
  /\ IsDecimal(SubSeq(s, Len(s), Len(s)))

\* the integer part of s, the last frac digits and the comma taken off, is
\* that of the amount, its digits grouped by three with "."
GroupedInteger(s, frac) ==
  LET a == IF data.paymentAmount < 0 THEN 0 - data.paymentAmount ELSE data.paymentAmount
  IN  SubSeq(s, 2, Len(s) - frac - 1)
        = (IF data.paymentAmount < 0 THEN "-" ELSE "") \o Grouped(a \div 1000)

\* C16 as stated: whatever the paymentAmount, the first Compensation item
\* holds, between its fixed words, the euro sign and the number with "." as
\* thousands separator, "," as decimal separator and exactly two fraction
\* digits.
C16_TwoFractionDigits ==
  \A item \in CompensationItems :
    /\ item = Sections[2].items[1]
    /\ SubSeq(item, 1, Len(CompensationLead)) = CompensationLead
    /\ TwoFractionDigits(EmbeddedAmount(item))
    /\ GroupedInteger(EmbeddedAmount(item), 2)

\* C16 for the amounts of whole cents: the same.
C16_WholeCents ==
  (HasAmount /\ data.paymentAmount % 10 = 0) => C16_TwoFractionDigits

\* the text is drawn with the amount in every build that reaches the item
C16_Drawn == Returned => (HasAmount <=> CompensationItems # {})

\* 25000 gives 25.000,00 after the euro sign
C16_Example ==
  (HasAmount /\ data.paymentAmount = 25000000) =>
     \A item \in CompensationItems : EmbeddedAmount(item) = "€25.000,00"

----------------------------------------------------------------------------
(* Properties of two builds: determinism and isolation *)

\* the two builds have the same data and the same options
SameInput == other # NoBuilder /\ data = other.data /\ options = other.options

OwnChunks(b) == [i \in 1..b.emitted |-> ChunkOf(b.opLog, i)]

\* the failures of build b that found its promise pending
OwnFailures(b) == SelectSeq(b.failures, LAMBDA f : f.pending)

\* what the promise of build b is after the events of its own document alone:
\* rejected with its first failure if that came before its end event,
\* resolved at its end event with its own chunks, pending otherwise
OwnOutcome(b) ==
  IF OwnFailures(b) # <<>>
  THEN [kind |-> "rejected", buf |-> <<>>, err |-> OwnFailures(b)[1].err]
  ELSE IF b.endEvent.emitted
       THEN [kind |-> "resolved",
             buf |-> concat([i \in 1..b.endEvent.before |-> ChunkOf(b.opLog, i)]),
             err |-> "none"]
       ELSE Pending

AsAlone(b) ==
  /\ b.chunks = OwnChunks(b)
  /\ b.outcome = OwnOutcome(b)
  /\ Len(OwnFailures(b)) <= 1
  /\ b.outcome.kind = "rejected" => b.failures # <<>>
  /\ b.outcome.kind = "resolved" => b.doc.ended

\* C18: of two builds made by separate generateContractPdf calls and
\* interleaved in any order, each has the chunks of its own document and the
\* outcome its own events give it, as if it ran alone: a failure of one
\* rejects only that one, and the other resolves with its own bytes.
C18_Isolated ==
  other # NoBuilder => (AsAlone(Mine) /\ AsAlone(other))

\* C18 witness: with the events of the two documents interleaved, one build
\* has been rejected by a failure of its document and the other, of another
\* contract, has resolved with all its chunks.
C18_Witness ==
  /\ other # NoBuilder
  /\ data # other.data
  /\ outcome.kind = "rejected" /\ failures # <<>> /\ other.failures = <<>>
  /\ other.outcome.kind = "resolved"
  /\ other.outcome.buf = concat(OwnChunks(other))
  /\ other.emitted = MaxChunks /\ emitted = 1

----------------------------------------------------------------------------
(* Properties of build(): no timeout *)

Settled == outcome.kind # "pending"

\* the backend has emitted its end event or an error event
EventEmitted == endEvent.emitted \/ failures # <<>>

\* C19: the promise of build() is settled only by a throw caught in the
\* executor or by an end or error event of the backend, never by a timeout or
\* a cancellation, so without them it stays pending; an end or error event
\* settles it as it is emitted; and if the backend emits its end event once
\* end() has been called, the build eventually settles.
C19_SettledByEventsOnly ==
  /\ [](Settled => (EventEmitted \/ pc.status = "caught"))
  /\ [](EventEmitted => Settled)
  /\ (doc.ended ~> Settled)

\* C19 witness: end() has been called, the executor has returned without a
\* throw, no error event has come, and the end event has resolved the
\* promise.
C19_Witness ==
  /\ doc.ended /\ pc.status = "returned"
  /\ failures = <<>> /\ endEvent.emitted
  /\ outcome.kind = "resolved"

\* a build that has called end() and whose backend has emitted nothing yet is
\* pending
C19_PendingMeanwhile ==
  (doc.ended /\ ~EventEmitted) => outcome.kind = "pending"

----------------------------------------------------------------------------
(* SignhostService: validatePostbackChecksum, parsePostback                 *)
(* A JavaScript value is a record of its type t and its text v as a         *)
(* template literal prints it.                                              *)

Undefined == [t |-> "undefined", v |-> "undefined"]

Str(s) == [t |-> "string", v |-> s]

Num(n) == [t |-> "number", v |-> IntStr(n)]

\* ToBoolean
Truthy(x) ==
  CASE x.t \in {"undefined", "null"} -> FALSE
    [] x.t = "string" -> x.v # ""
    [] x.t = "number" -> x.v # "0"
    [] x.t = "boolean" -> x.v = "true"
    [] OTHER -> TRUE

\* this.config.sharedSecret
sharedSecret == "s3cr3t"

Alphabet == "0123456789abcdefghijklmnopqrstuvwxyzABCDEFGHIJKLMNOPQRSTUVWXYZ|"

CharCode(c) ==
  IF \E i \in 1..Len(Alphabet) : SubSeq(Alphabet, i, i) = c
  THEN CHOOSE i \in 1..Len(Alphabet) : SubSeq(Alphabet, i, i) = c
  ELSE 0

HexDigit(d) == SubSeq("0123456789abcdef", d + 1, d + 1)

DigestSpace == 65536

RECURSIVE Mix(_)
Mix(s) ==
  IF s = "" THEN 40503
  ELSE (Mix(SubSeq(s, 1, Len(s) - 1)) * 31 + CharCode(SubSeq(s, Len(s), Len(s))))
         % DigestSpace

\* crypto.createHash("sha1").update(s).digest("hex"): a digest in lower-case
\* hexadecimal that every character of s bears on; four digits stand for the
\* forty of SHA-1
sha1hex(s) ==
  LET h == Mix(s)
  IN  HexDigit(h \div 4096) \o HexDigit((h \div 256) % 16)
        \o HexDigit((h \div 16) % 16) \o HexDigit(h % 16)

\* String.prototype.toLowerCase on one character
LowerChar(c) ==
  IF \E i \in 1..Len(UpperCase) : SubSeq(UpperCase, i, i) = c
  THEN LET i == CHOOSE i \in 1..Len(UpperCase) : SubSeq(UpperCase, i, i) = c
       IN  SubSeq(LowerCase, i, i)
  ELSE c

RECURSIVE toLowerCase(_)
toLowerCase(s) ==
  IF s = "" THEN ""
  ELSE toLowerCase(SubSeq(s, 1, Len(s) - 1)) \o LowerChar(SubSeq(s, Len(s), Len(s)))

\* `${transactionId}||${status}|${this.config.sharedSecret}`
ChecksumData(transactionId, status) ==
  transactionId.v \o "||" \o status.v \o "|" \o sharedSecret

\* a comparison that takes the received checksum as it is written
validateCaseSensitive(transactionId, status, receivedChecksum) ==
  sha1hex(ChecksumData(transactionId, status)) = receivedChecksum.v

\* a comparison of the first two digits only
validatePrefix(transactionId, status, receivedChecksum) ==
  SubSeq(sha1hex(ChecksumData(transactionId, status)), 1, 2)
    = SubSeq(toLowerCase(receivedChecksum.v), 1, 2)

\* receivedChecksum.toLowerCase() of a value that is no string
ThrowsOnChecksum(receivedChecksum) == receivedChecksum.t # "string"

validatePostbackChecksum(transactionId, status, receivedChecksum) ==
  toLowerCase(sha1hex(ChecksumData(transactionId, status)))
    = toLowerCase(receivedChecksum.v)

Null == [kind |-> "null"]

\* what a call of parsePostback(b) comes to: null, the postback, or a throw
parsePostbackOf(b) ==
  IF ~Truthy(b) \/ b.t # "object" THEN Null
  ELSE IF ~Truthy(b.Id) \/ b.Status.t # "number" \/ ~Truthy(b.Checksum) THEN Null
  ELSE IF ThrowsOnChecksum(b.Checksum) THEN [kind |-> "thrown", err |-> TypeError]
  ELSE IF validatePostbackChecksum(b.Id, b.Status, b.Checksum)
       THEN [kind |-> "postback", value |-> b]
       ELSE Null

parsePostback ==
  /\ body # NoBody
  /\ parsed = NotParsed
  /\ parsed' = parsePostbackOf(body)
  /\ UNCHANGED <<data, options, doc, pc, chunks, outcome, starts, emitted,
                 failures, endEvent, phaseLog, drawLog, checks, sig, opLog,
                 backend, self, other, body, demo>>

\* a body that is no object: null, undefined, a string, a number
NonObject(t, v) == [t |-> t, v |-> v, Id |-> Undefined, Status |-> Undefined,
                    Checksum |-> Undefined]

Object(id, status, checksum) ==
  [t |-> "object", v |-> "[object Object]", Id |-> id, Status |-> status,
   Checksum |-> checksum]

Ids == {Undefined, Str(""), Str("tx1"), Str("tx2"), Num(7)}

Statuses == {Undefined, Num(0), Num(5), Num(30), Str("5")}

UpperHex(s) == toUpperCase(s)

\* the checksums sent with an Id and a Status: none, empty, the right one in
\* lower and in upper case, that of another status, one digit off, and values
\* that are no strings
ChecksumsFor(id, status) ==
  LET right == sha1hex(ChecksumData(id, status))
  IN  { Undefined, Str(""), Str(right), Str(UpperHex(right)),
        Str(sha1hex(ChecksumData(id, Num(10)))),
        Str(SubSeq(right, 1, 3) \o (IF SubSeq(right, 4, 4) = "0" THEN "1" ELSE "0")),
        Num(0), Num(12345), [t |-> "boolean", v |-> "true"],
        [t |-> "object", v |-> "[object Object]"] }

Bodies ==
  { NonObject("null", "null"), NonObject("undefined", "undefined"),
    NonObject("string", "Id"), NonObject("number", "5") }
  \cup UNION { { Object(id, status, c) : c \in ChecksumsFor(id, status) } :
                 id \in Ids, status \in Statuses }

PostbackInit ==
  /\ data = MinimalData
  /\ options = DefaultOptions
  /\ backend = "sampled"
  /\ self = 1
  /\ other = NoBuilder
  /\ body \in Bodies
  /\ parsed = NotParsed
  /\ demo = NoDemo
  /\ Start

PostbackNext == parsePostback

PostbackSpec == PostbackInit /\ [][PostbackNext]_vars

----------------------------------------------------------------------------
(* Properties of parsePostback *)

Called == parsed # NotParsed

\* the body is an object with an Id, a numeric Status and a Checksum
WellFormed(b) ==
  /\ b.t = "object"
  /\ Truthy(b.Id) /\ b.Status.t = "number" /\ Truthy(b.Checksum)

\* the Checksum is, but for the case of its letters, the digest of
\* Id || Status | sharedSecret
Matches(b) ==
  toLowerCase(b.Checksum.v) = sha1hex(b.Id.v \o "||" \o b.Status.v \o "|" \o sharedSecret)

\* C20 as stated: for every body parsePostback returns the validated postback
\* or null; null when the body is no object or lacks Id, a numeric Status or
\* Checksum; the postback only when its Checksum is the SHA-1 of
\* Id || Status | sharedSecret, the case of the letters aside.
C20_PostbackOrNull ==
  Called =>
    /\ parsed.kind \in {"null", "postback"}
    /\ ~WellFormed(body) => parsed = Null
    /\ parsed.kind = "postback" => (parsed.value = body /\ Matches(body))

\* C20 for the bodies whose Checksum, if there is one, is a string: the same,
\* and the postback is returned whenever the Checksum matches.
C20_StringChecksum ==
  (Called /\ body.Checksum.t \in {"string", "undefined"}) =>
    /\ C20_PostbackOrNull
    /\ (WellFormed(body) /\ Matches(body)) => parsed.kind = "postback"

\* a postback with the right checksum in capitals has been returned, and one
\* whose checksum is a digit off has not
C20_Returned ==
  /\ Called /\ parsed.kind = "postback"
  /\ body.Checksum.v # toLowerCase(body.Checksum.v)

----------------------------------------------------------------------------
(* Properties of the cursor and of the page breaks *)

IsWriteY(entry) == entry.call.op = "writeY"

\* the places in the log of the assignments to doc.y
WritesOfY == { i \in DOMAIN opLog : IsWriteY(opLog[i]) }

\* C23: the builder assigns doc.y only in renderSignatureBlock; in
\* renderHeader, renderPreamble, renderSections and renderSection the cursor
\* moves only in a text, a moveDown or an addPage of the backend; and a
\* completed build has made exactly two assignments, each right after the
\* last draw of a signature row, the Date line.
C23_DirectWrites ==
  /\ [][ Running =>
           /\ Current.op = "writeY" => Top.fn = "renderSignatureBlock"
           /\ (doc'.y # doc.y /\ Top.fn # "renderSignatureBlock"
                 /\ Top.fn # "renderSignatureRow")
                => Current.op \in {"text", "moveDown", "checkPage"}
           /\ (doc'.y # doc.y /\ Current.op = "checkPage") => Calls(Current) = <<AddPage>>
           /\ doc'.y # doc.y
                => Current.op \in {"text", "textAt", "moveDown", "checkPage", "writeY"} ]_vars
  /\ [](Returned =>
          /\ Cardinality(WritesOfY) = 2
          /\ \A i \in WritesOfY :
               /\ i > 1
               /\ opLog[i - 1].call.op = "textAt"
               /\ SubSeq(opLog[i - 1].call.s, 1, 5) = "Date:")

\* C23 witness: a completed build has assigned doc.y twice and its cursor is
\* where the second assignment put it, 140 points below the Provider row's
\* start.
C23_Witness ==
  /\ Returned
  /\ Cardinality(WritesOfY) = 2
  /\ starts.providerStartY = starts.clientStartY + Pt(170)
  /\ doc.y = starts.providerStartY + Pt(140)

\* the places in the log of the addPage calls of the builder
AddedPages == { i \in DOMAIN opLog : opLog[i].call = AddPage }

\* the calls that follow place i are those that start a section: font size
\* 12, bold, and the header "N. TITLE"
BeforeHeader(i) ==
  /\ i + 3 <= Len(opLog)
  /\ opLog[i + 1].call = FontSize(12)
  /\ opLog[i + 2].call = Font("Helvetica-Bold")
  /\ IsNumbered(opLog[i + 3])
  /\ SubSeq(opLog[i + 3].call.s, 3, 3) = " "

\* the calls that follow place i are those that start the signature block
BeforeSignatureBlock(i) ==
  /\ i + 4 <= Len(opLog)
  /\ opLog[i + 1].call = MoveDown(20)
  /\ opLog[i + 2].call = FontSize(11)
  /\ opLog[i + 3].call = Font("Helvetica")
  /\ opLog[i + 4].call.op = "text"
  /\ SubSeq(opLog[i + 4].call.s, 1, 18) = "IN WITNESS WHEREOF"

\* C24: the builder calls addPage only as the first statement of
\* renderSection or of renderSignatureBlock; in a completed build every
\* addPage is followed at once by a section header or by the opening of the
\* signature block, at most one of them by the latter, and there are at most
\* 8 in all.
C24_ExplicitBreaks ==
  /\ [][ (Running /\ Calls(Current) = <<AddPage>>) =>
           /\ Current.op = "checkPage"
           /\ Top.k = 1
           /\ Top.fn \in {"renderSection", "renderSignatureBlock"} ]_vars
  /\ [](Returned =>
          /\ \A i \in AddedPages : BeforeHeader(i) \/ BeforeSignatureBlock(i)
          /\ Cardinality({ i \in AddedPages : BeforeSignatureBlock(i) }) <= 1
          /\ Cardinality(AddedPages) <= 8)

\* C24 witness: a completed build has added a page before a section header
\* and a page before the signature block.
C24_Witness ==
  /\ Returned
  /\ \E i \in AddedPages : BeforeHeader(i)
  /\ \E i \in AddedPages : BeforeSignatureBlock(i)

----------------------------------------------------------------------------
(* Properties of the marker style *)

\* drawn in the near-invisible style, in part at least
NearInvisible(entry) == entry.fillColor = "#ffffff" \/ entry.fontSize = 1

IsLine(entry) == entry.call.op \in {"moveTo", "lineTo", "stroke"}

\* the marker draws: a token drawn white in font size 1
MarkerPlaces ==
  { i \in DOMAIN opLog :
      /\ IsTokenDraw(opLog[i])
      /\ opLog[i].fillColor = "#ffffff" /\ opLog[i].fontSize = 1 }

\* the draws issued after a marker: texts other than markers, and lines
TextsAfterMarker ==
  { i \in DOMAIN opLog :
      IsText(opLog[i]) /\ i \notin MarkerPlaces /\ \E m \in MarkerPlaces : m < i }

LinesAfterMarker ==
  { i \in DOMAIN opLog : IsLine(opLog[i]) /\ \E m \in MarkerPlaces : m < i }

Visibly(i) == opLog[i].fillColor = "#000000" /\ opLog[i].fontSize = 10

\* the texts: only a token is drawn white or in font size 1, and every text
\* after a marker is black and in font size 10
TextStyles ==
  /\ \A i \in DOMAIN opLog :
       (IsText(opLog[i]) /\ NearInvisible(opLog[i])) => i \in MarkerPlaces
  /\ \A i \in TextsAfterMarker : Visibly(i)

\* C25 as stated: only an anchor token is drawn white in font size 1; every
\* other text drawn after a token, and the ruled line drawn after it, is drawn
\* with fill colour #000000 and font size 10.
C25_LineInFontSize10 ==
  /\ TextStyles
  /\ \A i \in LinesAfterMarker : Visibly(i)

\* C25 amended: only an anchor token is drawn white in font size 1; every
\* other text drawn after a token is drawn with fill colour #000000 and font
\* size 10; the ruled line that follows a token is drawn with fill colour
\* #000000, the font size in force being 1 or 10.
C25_MarkerStyle ==
  /\ TextStyles
  /\ \A i \in LinesAfterMarker :
       opLog[i].fillColor = "#000000" /\ opLog[i].fontSize \in {1, 10}

\* C25 witness: a completed build has drawn its two markers; the line after
\* the first was drawn with font size 1 in force, and the Provider label and
\* the Name, Title and Date lines after it in black and font size 10.
C25_Witness ==
  /\ Returned
  /\ Cardinality(MarkerPlaces) = 2
  /\ \E i \in LinesAfterMarker : opLog[i].fontSize = 1
  /\ Cardinality(TextsAfterMarker) = 7
  /\ \E i \in TextsAfterMarker : opLog[i].call.s = "PROVIDER" /\ Visibly(i)

----------------------------------------------------------------------------
(* Properties of build(): single-shot *)

\* this step delivers the end event, an error event, or a throw to the catch
Completes == endEvent'.emitted /\ ~endEvent.emitted

Fails == Len(failures') = Len(failures) + 1

Catches == pc'.status = "caught" /\ pc.status = "running"

\* C26: the promise of build() settles at most once. While it is pending, the
\* first end event resolves it with the chunks collected, the first error
\* event rejects it with that error and the first throw caught rejects it
\* with the exception, and nothing else settles it; once it is settled, no
\* later end event, error event or throw changes the outcome.
C26_SingleShot ==
  [][ /\ Settled => outcome' = outcome
      /\ (~Settled /\ Completes) => outcome' = [kind |-> "resolved", buf |-> concat(chunks), err |-> "none"]
      /\ (~Settled /\ Fails) => outcome' = Rejected(failures'[Len(failures')].err)
      /\ (~Settled /\ Catches) => outcome' = Rejected(Thrown)
      /\ (~Settled /\ outcome' # outcome) => (Completes \/ Fails \/ Catches) ]_vars

\* C26 witness: the build was resolved by the end event and an error event
\* came afterwards; the outcome is still the buffer.
C26_Witness ==
  /\ outcome.kind = "resolved"
  /\ endEvent.emitted
  /\ failures # <<>> /\ \A i \in DOMAIN failures : ~failures[i].pending
  /\ outcome.buf = concat(chunks) /\ chunks # <<>>

\* the other order: rejected by an error event, the end event afterwards
C26_RejectedThenEnd ==
  /\ failures # <<>> /\ endEvent.emitted
  /\ outcome.kind = "rejected" /\ outcome.err = failures[1].err

----------------------------------------------------------------------------
(* demo.ts: main(). One action per awaited operation; the log holds the    *)
(* operations performed, in order, each with how it ended.                 *)

\* the variables of the build
builder == <<data, options, doc, pc, chunks, outcome, starts, emitted, failures,
             endEvent, phaseLog, drawLog, checks, sig, opLog>>

\* CONFIG.SIGNHOST_API_KEY as shipped
Placeholder == "YOUR_API_KEY_HERE"

\* process.env.SIGNHOST_API_KEY || "": the placeholder, unset, set
ApiKeys == {Placeholder, "", "key"}

\* const fileId = "contract.pdf"
fileId == "contract.pdf"

\* how an operation ends: done, a response that is not OK (SignhostError), a
\* rejected fetch or a throwing file system call
Responses == {"ok", "notOk", "failed"}

Done(op, result, file) == [op |-> op, result |-> result, fileId |-> file]

Performed(d, op, result, file) == [d EXCEPT !.log = Append(@, Done(op, result, file))]

\* catch (error) { ...; process.exit(1) }, and process.exit(1) of the
\* configuration check
Exit(d, code) == [d EXCEPT !.at = "exited", !.exit = code]

\* main() returns; the process ends with code 0
Return(d) == [d EXCEPT !.at = "returned", !.exit = 0]

\* a catch of main that goes on with the next step
GoOn(d, result, next) == [d EXCEPT !.at = next]

\* the step after an awaited operation: on, or to the catch of main
After(d, result, next) ==
  IF result = "ok" THEN [d EXCEPT !.at = next] ELSE Exit(d, 1)

\* if (!CONFIG.DEMO_MODE && CONFIG.SIGNHOST_API_KEY === "YOUR_API_KEY_HERE")
\* process.exit(1); otherwise generateContractPdf is called
validateConfiguration ==
  /\ demo.at = "main"
  /\ demo' = IF ~demo.DEMO_MODE /\ demo.SIGNHOST_API_KEY = Placeholder
             THEN Exit(demo, 1)
             ELSE [demo EXCEPT !.at = "generateContractPdf"]
  /\ UNCHANGED <<builder, backend, self, other, body, parsed>>

\* the build of the PDF runs while main awaits it
Generating == demo.at = "generateContractPdf"

\* const pdfBuffer = await generateContractPdf(...)
awaitPdf ==
  /\ Generating
  /\ outcome.kind # "pending"
  /\ demo' = IF outcome.kind = "resolved"
             THEN [Performed(demo, "generateContractPdf", "ok", "")
                     EXCEPT !.at = "save", !.pdfBuffer = outcome.buf]
             ELSE Exit(Performed(demo, "generateContractPdf", "failed", ""), 1)
  /\ UNCHANGED <<builder, backend, self, other, body, parsed>>

\* a main that saves the PDF and goes on to Signhost in demo mode too
savePdfAndGoOn ==
  /\ demo.at = "save"
  /\ \E r \in {"ok", "failed"} :
       demo' = After(Performed(demo, "writeFileSync", r, ""), r, "createSignhostService")
  /\ UNCHANGED <<builder, backend, self, other, body, parsed>>

\* ensureOutputDir(); fs.writeFileSync(localPdfPath, pdfBuffer);
\* if (CONFIG.DEMO_MODE) { printContractSummary(); return }
savePdf ==
  /\ demo.at = "save"
  /\ \E r \in {"ok", "failed"} :
       LET d == Performed(demo, "writeFileSync", r, "")
       IN  demo' = IF r = "ok" /\ demo.DEMO_MODE THEN Return(d)
                   ELSE After(d, r, "createSignhostService")
  /\ UNCHANGED <<builder, backend, self, other, body, parsed>>

createSignhostService ==
  /\ demo.at = "createSignhostService"
  /\ demo' = After(Performed(demo, "createSignhostService", "ok", ""), "ok",
                   "createTransaction")
  /\ UNCHANGED <<builder, backend, self, other, body, parsed>>

\* a main that uploads the PDF right after creating the transaction
createTransactionThenFile ==
  /\ demo.at = "createTransaction"
  /\ \E r \in Responses \cup {"noSigners"} :
       demo' = After(Performed(demo, "createTransaction", r, ""), r, "uploadFile")
  /\ UNCHANGED <<builder, backend, self, other, body, parsed>>

\* await signhost.createTransaction(...); transaction.Signers[0].Id throws
\* when the transaction came without signers
createTransaction ==
  /\ demo.at = "createTransaction"
  /\ \E r \in Responses \cup {"noSigners"} :
       demo' = After(Performed(demo, "createTransaction", r, ""), r, "uploadFileMetadata")
  /\ UNCHANGED <<builder, backend, self, other, body, parsed>>

uploadFileMetadata ==
  /\ demo.at = "uploadFileMetadata"
  /\ \E r \in Responses :
       demo' = After(Performed(demo, "uploadFileMetadata", r, fileId), r, "uploadFile")
  /\ UNCHANGED <<builder, backend, self, other, body, parsed>>

uploadFile ==
  /\ demo.at = "uploadFile"
  /\ \E r \in Responses :
       demo' = After(Performed(demo, "uploadFile", r, fileId), r, "startTransaction")
  /\ UNCHANGED <<builder, backend, self, other, body, parsed>>

\* await signhost.startTransaction(transactionId); the summary; sleep(5000)
startTransaction ==
  /\ demo.at = "startTransaction"
  /\ \E r \in Responses :
       demo' = After(Performed(demo, "startTransaction", r, ""), r, "checkTransactionStatus")
  /\ UNCHANGED <<builder, backend, self, other, body, parsed>>

\* checkTransactionStatus: getTransaction, with its own catch that logs the
\* failure; a signed transaction has its document downloaded
checkTransactionStatus ==
  /\ demo.at = "checkTransactionStatus"
  /\ \E r \in Responses \cup {"signed"} :
       LET d == Performed(demo, "getTransaction", r, "")
       IN  demo' = IF r = "signed" THEN [d EXCEPT !.at = "downloadDocument"]
                   ELSE Return(d)
  /\ UNCHANGED <<builder, backend, self, other, body, parsed>>

downloadDocument ==
  /\ demo.at = "downloadDocument"
  /\ \E r \in Responses :
       LET d == Performed(demo, "downloadDocument", r, fileId)
       IN  demo' = IF r = "ok" THEN [d EXCEPT !.at = "downloadReceipt"] ELSE Return(d)
  /\ UNCHANGED <<builder, backend, self, other, body, parsed>>

downloadReceipt ==
  /\ demo.at = "downloadReceipt"
  /\ \E r \in Responses :
       demo' = Return(Performed(demo, "downloadReceipt", r, ""))
  /\ UNCHANGED <<builder, backend, self, other, body, parsed>>

\* main() is called with the configuration of the environment
DemoInit ==
  /\ data = MinimalData
  /\ options = DefaultOptions
  /\ backend \in Backends
  /\ self = 1
  /\ other = NoBuilder
  /\ body = NoBody
  /\ parsed = NotParsed
  /\ \E mode \in BOOLEAN, key \in ApiKeys :
       demo = [at |-> "main", DEMO_MODE |-> mode, SIGNHOST_API_KEY |-> key,
               log |-> <<>>, pdfBuffer |-> <<>>, exit |-> -1]
  /\ Start

DemoNext ==
  \/ validateConfiguration
  \/ Generating /\ Executor
  \/ Generating /\ catch
  \/ Generating /\ ~Running /\ onData
  \/ Generating /\ ~Running /\ onEnd
  \/ Generating /\ ~Running /\ onError
  \/ awaitPdf
  \/ savePdf
  \/ createSignhostService
  \/ createTransaction
  \/ uploadFileMetadata
  \/ uploadFile
  \/ startTransaction
  \/ checkTransactionStatus
  \/ downloadDocument
  \/ downloadReceipt

DemoSpec == DemoInit /\ [][DemoNext]_vars

----------------------------------------------------------------------------
(* Properties of the demo flow *)

\* the operations on Signhost that main performs, in the order of the flow
SignhostSteps ==
  << "createTransaction", "uploadFileMetadata", "uploadFile", "startTransaction",
     "getTransaction" >>

IsSignhostStep(entry) == \E k \in DOMAIN SignhostSteps : entry.op = SignhostSteps[k]

\* the Signhost steps performed so far, in order
StepsDone ==
  LET done == SelectSeq(demo.log, IsSignhostStep)
  IN  [k \in DOMAIN done |-> done[k].op]

\* an operation op on file that went well is in the log before place i
DoneBefore(i, op, file) ==
  \E j \in 1..(i - 1) :
    demo.log[j].op = op /\ demo.log[j].result = "ok" /\ demo.log[j].fileId = file

InDemo == demo # NoDemo

\* C21: with DEMO_MODE off, the Signhost steps performed are, in this order,
\* create transaction, upload file metadata, upload PDF file, start
\* transaction, get status, each at most once; the PDF of a fileId is
\* uploaded only after the metadata of that fileId was, startTransaction is
\* called only after the PDF upload succeeded, and every step comes after the
\* PDF was generated.
C21_StepOrder ==
  (InDemo /\ ~demo.DEMO_MODE) =>
    /\ Len(StepsDone) <= Len(SignhostSteps)
    /\ StepsDone = SubSeq(SignhostSteps, 1, Len(StepsDone))
    /\ \A i \in DOMAIN demo.log :
         /\ demo.log[i].op = "uploadFile"
              => DoneBefore(i, "uploadFileMetadata", demo.log[i].fileId)
         /\ demo.log[i].op = "startTransaction" => DoneBefore(i, "uploadFile", fileId)
         /\ IsSignhostStep(demo.log[i]) => DoneBefore(i, "generateContractPdf", "")

\* C21 witness: main has returned with DEMO_MODE off after the five steps.
C21_Witness ==
  /\ InDemo /\ ~demo.DEMO_MODE
  /\ demo.at = "returned"
  /\ StepsDone = SignhostSteps
  /\ demo.pdfBuffer # <<>>

\* the operations of main that do not reach Signhost
Local == {"generateContractPdf", "writeFileSync"}

\* C22: with DEMO_MODE = true main performs nothing but the generation of
\* the PDF and its saving: no service is created, no transaction is created,
\* nothing is uploaded or started; once the PDF is saved main returns.
C22_DemoMode ==
  (InDemo /\ demo.DEMO_MODE) =>
    /\ \A i \in DOMAIN demo.log : demo.log[i].op \in Local
    /\ demo.at \in {"main", "generateContractPdf", "save", "returned", "exited"}
    /\ demo.at = "returned" =>
         /\ demo.log = << Done("generateContractPdf", "ok", ""),
                          Done("writeFileSync", "ok", "") >>
         /\ demo.exit = 0
    /\ (Len(demo.log) = 2 /\ demo.log[2].result = "ok") => demo.at = "returned"

\* C22 witness: with DEMO_MODE = true and the API key left as shipped, main
\* has generated and saved the PDF and returned.
C22_Witness ==
  /\ InDemo /\ demo.DEMO_MODE /\ demo.SIGNHOST_API_KEY = Placeholder
  /\ demo.at = "returned"
  /\ demo.pdfBuffer = outcome.buf /\ outcome.kind = "resolved"
  /\ Len(demo.log) = 2

\* the operations whose failure ends the flow: those in the try block of main
\* up to startTransaction
Fatal ==
  {"generateContractPdf", "createTransaction", "uploadFileMetadata", "uploadFile",
   "startTransaction"}

\* C27: when the generation of the PDF or a Signhost step up to and including
\* startTransaction fails, it is the last operation of the flow and the
\* process exits with code 1; a transaction is never started after a failed
\* upload of metadata or file.
C27_FailureEndsFlow ==
  InDemo =>
    \A i \in DOMAIN demo.log :
      (demo.log[i].op \in Fatal /\ demo.log[i].result # "ok") =>
         /\ i = Len(demo.log)
         /\ demo.at = "exited"
         /\ demo.exit = 1

\* C27 witness: the upload of the PDF got a response that was not OK; the
\* process has exited with code 1 and no transaction was started.
C27_Witness ==
  /\ InDemo
  /\ demo.at = "exited" /\ demo.exit = 1
  /\ demo.log # <<>>
  /\ demo.log[Len(demo.log)] = Done("uploadFile", "notOk", fileId)
  /\ \A i \in DOMAIN demo.log : demo.log[i].op # "startTransaction"

\* the generation of the PDF failed: nothing was saved, nothing sent
C27_PdfFailed ==
  /\ InDemo
  /\ demo.log = << Done("generateContractPdf", "failed", "") >>
  /\ demo.exit = 1

====
